---- MODULE Spec2Model ----
(***************************************************************************)
(* A model of download_ebay_images.py: the image-candidate extractor       *)
(* (get_matching_images), the thumbnail URL upgrade                        *)
(* (upgrade_to_fullsize_image), the item-number rule (extract_item_number) *)
(* and the gallery driver (process_gallery).                               *)
(*                                                                         *)
(* Python strings are sequences of one-character strings, so that the      *)
(* substring tests, str.replace, str.split and the regular expressions of  *)
(* the source are computed character by character.                         *)
(***************************************************************************)
EXTENDS Integers, Sequences, FiniteSets, TLC

VARIABLES
    \* the upgrade rule on one URL: position, input, first and second result
    u_pc, u_in, u_out1, u_out2,
    \* srcset resolution on one srcset value: position, input, chosen URL
    s_pc, s_srcset, s_url,
    \* get_matching_images: position, the rendered page, the regex_pattern
    \* argument, the index of the selector in progress, the elements its
    \* query returned, the position in them
    e_pc, e_page, e_pattern, e_sel, e_elems, e_k,
    \* its locals
    matching_images, seen_alts,
    \* history of the call: the (url, alt) pair of every element that reached
    \* the duplicate checks, the selector each accepted candidate came from,
    \* the selectors queried so far
    e_discovered, e_origin, e_consulted,
    \* process_gallery: the input list, the files and folders under img_root,
    \* the output manifest file, the number of the run, the position of the
    \* run, the index of the item of the for loop
    gallery, disk, dirs, manifest, run, d_pc, item_i,
    \* its locals
    output, item_number, d_matching_images, idx, downloaded_files, skipped_files,
    \* the listing pages as the extractor sees them: for each item of the
    \* list, what get_matching_images returns when page.goto succeeds
    d_found,
    \* history of the run: what happened to each item, the paths download_image
    \* was called for, whether the run started on an empty img_root, the
    \* position each item had in the list of the run before, the run before
    d_res, d_fetched, d_fresh, d_perm, d_prev

uvars == <<u_pc, u_in, u_out1, u_out2>>
svars == <<s_pc, s_srcset, s_url>>

evars == <<e_pc, e_page, e_pattern, e_sel, e_elems, e_k, matching_images,
           seen_alts, e_discovered, e_origin, e_consulted>>

dvars == <<gallery, disk, dirs, manifest, run, d_pc, item_i, output,
           item_number, d_matching_images, idx, downloaded_files, skipped_files,
           d_found, d_res, d_fetched, d_fresh, d_perm, d_prev>>

vars == <<u_pc, u_in, u_out1, u_out2, s_pc, s_srcset, s_url,
          e_pc, e_page, e_pattern, e_sel, e_elems, e_k, matching_images,
          seen_alts, e_discovered, e_origin, e_consulted,
          gallery, disk, dirs, manifest, run, d_pc, item_i, output,
          item_number, d_matching_images, idx, downloaded_files, skipped_files,
          d_found, d_res, d_fetched, d_fresh, d_perm, d_prev>>

----------------------------------------------------------------------------
(* Bounds of the model *)

\* number of path segments appended to a URL head in the URL inputs
MaxSegs == 2

\* number of comma-separated entries of a srcset input
MaxEntries == 2

\* number of image elements of a rendered page
MaxElems == 2

\* number of items of an input list
MaxItems == 2

\* number of runs of process_gallery over one input list
MaxRuns == 3

----------------------------------------------------------------------------
(* Python str primitives *)

Digits == {"0","1","2","3","4","5","6","7","8","9"}

\* s[i:i+len(p)] == p
IsPrefixAt(s, p, i) ==
    /\ i >= 1
    /\ i + Len(p) - 1 <= Len(s)
    /\ \A k \in 1..Len(p) : s[i + k - 1] = p[k]

\* p in s
Contains(s, p) == \E i \in 1..(Len(s) - Len(p) + 1) : IsPrefixAt(s, p, i)

\* s.startswith(p)
StartsWith(s, p) == IsPrefixAt(s, p, 1)

\* the tail of s.replace(old, new) from position i on: occurrences are
\* replaced left to right, without overlap
RECURSIVE ReplaceFrom(_, _, _, _)
ReplaceFrom(s, old, new, i) ==
    LET at == {j \in i..Len(s) : IsPrefixAt(s, old, j)}
    IN IF at = {} THEN SubSeq(s, i, Len(s))
       ELSE LET j == CHOOSE x \in at : \A y \in at : x <= y
            IN SubSeq(s, i, j - 1) \o new \o ReplaceFrom(s, old, new, j + Len(old))

\* s.replace(old, new)
StrReplace(s, old, new) == ReplaceFrom(s, old, new, 1)

\* index of the last character of the longest run of characters of s that
\* starts at i and satisfies no "/" (i - 1 when the run is empty): [^/]+
RECURSIVE RunEnd(_, _)
RunEnd(s, i) ==
    IF i > Len(s) \/ s[i] = "/" THEN i - 1 ELSE RunEnd(s, i + 1)

\* index of the last character of the longest run of digits from i: \d+
RECURSIVE DigitsEnd(_, _)
DigitsEnd(s, i) ==
    IF i > Len(s) \/ s[i] \notin Digits THEN i - 1 ELSE DigitsEnd(s, i + 1)

Min(S) == CHOOSE x \in S : \A y \in S : x <= y
Max(S) == CHOOSE x \in S : \A y \in S : x >= y

----------------------------------------------------------------------------
(* String literals of the source *)

HTTPS     == <<"h","t","t","p","s",":","/","/">>
IMAGES    == <<"/","i","m","a","g","e","s","/">>
SLASH_SL  == <<"/","s","-","l">>
SL        == <<"s","-","l">>
SL1600    == <<"s","-","l","1","6","0","0">>
EBAYIMG   == <<"e","b","a","y","i","m","g",".","c","o","m">>
DATA_URI  == <<"d","a","t","a",":">>

\* size_replacements, in list order (every pair maps to s-l1600)
size_replacements ==
    << <<"s","-","l","6","4">>,
       <<"s","-","l","9","6">>,
       <<"s","-","l","1","4","0">>,
       <<"s","-","l","2","2","5">>,
       <<"s","-","l","3","0","0">>,
       <<"s","-","l","4","0","0">>,
       <<"s","-","l","5","0","0">>,
       <<"s","-","l","6","0","0">>,
       <<"s","-","l","8","0","0">>,
       <<"s","-","l","1","0","0","0">>,
       <<"s","-","l","1","2","0","0">> >>

\* the extensions of the filename expression, in alternation order
FileExts == << <<"j","p","g">>, <<"j","p","e","g">>, <<"p","n","g">>, <<"g","i","f">> >>

----------------------------------------------------------------------------
(* upgrade_to_fullsize_image *)

\* the loop over size_replacements: the first pair whose old size occurs in
\* the URL is applied (to every occurrence) and the loop breaks
RECURSIVE ReplaceFirstKnown(_, _)
ReplaceFirstKnown(img_url, k) ==
    IF k > Len(size_replacements) THEN img_url
    ELSE IF Contains(img_url, size_replacements[k])
         THEN StrReplace(img_url, size_replacements[k], SL1600)
         ELSE ReplaceFirstKnown(img_url, k + 1)

\* re.search(r'(https://[^/]+/images/[^/]+/[^/]+)/s-l\d+', s) tried at i:
\* the index of the last character of group 1, or 0 when there is no match at i
BaseMatchAt(s, i) ==
    IF ~IsPrefixAt(s, HTTPS, i) THEN 0
    ELSE LET h0 == i + Len(HTTPS)
             h1 == RunEnd(s, h0)
         IN IF h1 < h0 \/ ~IsPrefixAt(s, IMAGES, h1 + 1) THEN 0
            ELSE LET a0 == h1 + 1 + Len(IMAGES)
                     a1 == RunEnd(s, a0)
                 IN IF a1 < a0 \/ a1 + 1 > Len(s) THEN 0
                    ELSE LET b0 == a1 + 2
                             b1 == RunEnd(s, b0)
                         IN IF /\ b1 >= b0
                               /\ IsPrefixAt(s, SLASH_SL, b1 + 1)
                               /\ DigitsEnd(s, b1 + 1 + Len(SLASH_SL)) >= b1 + 1 + Len(SLASH_SL)
                            THEN b1 ELSE 0

\* group 1 of the leftmost match of the base expression, <<>> when none
BaseUrlMatch(s) ==
    LET hits == {i \in 1..Len(s) : BaseMatchAt(s, i) > 0}
    IN IF hits = {} THEN <<>>
       ELSE SubSeq(s, Min(hits), BaseMatchAt(s, Min(hits)))

\* the extension (index into FileExts, first alternative first) matching at d, 0 if none
ExtAt(s, d) ==
    LET ok == {e \in 1..Len(FileExts) : IsPrefixAt(s, FileExts[e], d)}
    IN IF ok = {} THEN 0 ELSE Min(ok)

\* re.search(r'/([^/]+\.(jpg|jpeg|png|gif))', s) tried at the "/" at j: the
\* index of the last character of group 1 (the greedy [^/]+ gives the last
\* dot of the segment that an extension follows), 0 when no match at j
FilenameMatchAt(s, j) ==
    IF s[j] # "/" THEN 0
    ELSE LET e == RunEnd(s, j + 1)
             dots == {d \in (j + 2)..e : s[d] = "." /\ ExtAt(s, d + 1) > 0}
         IN IF dots = {} THEN 0
            ELSE Max(dots) + Len(FileExts[ExtAt(s, Max(dots) + 1)])

\* group 1 of the leftmost match of the filename expression, <<>> when none
FilenameMatch(s) ==
    LET hits == {j \in 1..Len(s) : FilenameMatchAt(s, j) > 0}
    IN IF hits = {} THEN <<>>
       ELSE SubSeq(s, Min(hits) + 1, FilenameMatchAt(s, Min(hits)))

\* the branch taken when the URL holds no "s-l" and is an ebayimg.com URL
StructuralRewrite(img_url) ==
    LET base_url == BaseUrlMatch(img_url)
        filename == FilenameMatch(img_url)
    IN IF base_url # <<>>
       THEN IF filename # <<>>
            THEN base_url \o <<"/">> \o SL1600 \o <<"/">> \o filename
            ELSE base_url \o <<"/">> \o SL1600
       ELSE img_url

\* a plausible slip: the early return for URLs that are already full size is lost
upgrade_NoEarlyReturn(img_url) ==
    IF img_url = <<>> THEN img_url
    ELSE LET replaced == ReplaceFirstKnown(img_url, 1)
         IN IF ~Contains(replaced, SL) /\ Contains(replaced, EBAYIMG)
            THEN StructuralRewrite(replaced)
            ELSE replaced

upgrade_to_fullsize_image(img_url) ==
    IF img_url = <<>> THEN img_url
    ELSE IF Contains(img_url, SL1600) THEN img_url
    ELSE LET replaced == ReplaceFirstKnown(img_url, 1)
         IN IF ~Contains(replaced, SL) /\ Contains(replaced, EBAYIMG)
            THEN StructuralRewrite(replaced)
            ELSE replaced

----------------------------------------------------------------------------
(* The URL inputs of the upgrade rule *)

CdnBase  == <<"h","t","t","p","s",":","/","/","i",".","e","b","a","y","i","m","g",".","c","o","m","/","i","m","a","g","e","s","/","g","/","A">>
CdnFlat  == <<"h","t","t","p","s",":","/","/","i",".","e","b","a","y","i","m","g",".","c","o","m","/","z">>
OtherUrl == <<"h","t","t","p","s",":","/","/","x",".","i","o","/","p">>

UrlHeads == {CdnBase, CdnFlat, OtherUrl}

UrlSegs ==
    { <<"/","s","-","l","6","4">>,
      <<"/","s","-","l","6","4","0">>,
      <<"/","s","-","l","5","0","0">>,
      <<"/","s","-","l","9","6">>,
      <<"/","s","-","l","1","6","0","0">>,
      <<"/","s","-","l","5","0">>,
      <<"/","s","-","l","2","0","0","0">>,
      <<"/","t">> }

UrlTails == { <<>>, <<"/","f",".","j","p","g">>, <<".","p","n","g">> }

RECURSIVE SegPaths(_)
SegPaths(n) ==
    IF n = 0 THEN {<<>>}
    ELSE SegPaths(n - 1) \cup {p \o s : p \in SegPaths(n - 1), s \in UrlSegs}

UrlInputs ==
    {<<>>} \cup {h \o p \o t : h \in UrlHeads, p \in SegPaths(MaxSegs), t \in UrlTails}
----------------------------------------------------------------------------
(* srcset resolution (get_matching_images, the srcset branch) *)

Whitespace == {" "}

\* the k-th smallest member of a set of positions
Kth(S, k) == CHOOSE x \in S : Cardinality({y \in S : y < x}) = k - 1

\* s.split(","): the texts between the commas, empty ones kept
SplitComma(s) ==
    LET commas == {i \in 1..Len(s) : s[i] = ","}
        n      == Cardinality(commas)
        from(k) == IF k = 1 THEN 1 ELSE Kth(commas, k - 1) + 1
        to(k)   == IF k = n + 1 THEN Len(s) ELSE Kth(commas, k) - 1
    IN [k \in 1..(n + 1) |-> SubSeq(s, from(k), to(k))]

\* s.strip().split(): the whitespace-separated words of s, empty words dropped
SplitWs(s) ==
    LET starts == {i \in 1..Len(s) :
                     s[i] \notin Whitespace /\ (i = 1 \/ s[i - 1] \in Whitespace)}
        last(i) == Min({j \in i..Len(s) : j = Len(s) \/ s[j + 1] \in Whitespace})
    IN [k \in 1..Cardinality(starts) |-> SubSeq(s, Kth(starts, k), last(Kth(starts, k)))]

DigitVal(c) ==
    CASE c = "0" -> 0 [] c = "1" -> 1 [] c = "2" -> 2 [] c = "3" -> 3
      [] c = "4" -> 4 [] c = "5" -> 5 [] c = "6" -> 6 [] c = "7" -> 7
      [] c = "8" -> 8 [] c = "9" -> 9

\* int(ds) for a string of digits
RECURSIVE IntOf(_)
IntOf(ds) ==
    IF ds = <<>> THEN 0
    ELSE 10 * IntOf(SubSeq(ds, 1, Len(ds) - 1)) + DigitVal(ds[Len(ds)])

\* re.search(r'(\d+)', size_str): the first run of digits, then int(); 0 when
\* the descriptor holds no digit (size stays 0)
DescriptorSize(size_str) ==
    LET at == {i \in 1..Len(size_str) : size_str[i] \in Digits}
    IN IF at = {} THEN 0
       ELSE IntOf(SubSeq(size_str, Min(at), DigitsEnd(size_str, Min(at))))

\* the (url, size) pairs of the entries of srcset_parts that hold a word
RECURSIVE PartsEntries(_, _)
PartsEntries(srcset_parts, k) ==
    IF k > Len(srcset_parts) THEN <<>>
    ELSE LET parts == SplitWs(srcset_parts[k])
         IN (IF Len(parts) >= 1
             THEN << <<parts[1], IF Len(parts) > 1 THEN DescriptorSize(parts[2]) ELSE 0>> >>
             ELSE <<>>)
            \o PartsEntries(srcset_parts, k + 1)

SrcsetEntries(srcset) == PartsEntries(SplitComma(srcset), 1)

\* the loop over the entries: largest_url starts as None (here <<>>) and
\* largest_size as 0; an entry replaces them when size > largest_size
RECURSIVE LargestFrom(_, _, _, _)
LargestFrom(entries, k, largest_url, largest_size) ==
    IF k > Len(entries) THEN largest_url
    ELSE IF entries[k][2] > largest_size
         THEN LargestFrom(entries, k + 1, entries[k][1], entries[k][2])
         ELSE LargestFrom(entries, k + 1, largest_url, largest_size)

\* largest_url after the loop (<<>> for None)
SrcsetLargest(srcset) == LargestFrom(SrcsetEntries(srcset), 1, <<>>, 0)

----------------------------------------------------------------------------
(* The srcset inputs *)

SrcsetUrls == { <<"a">>, <<"b">>, <<"c">> }

SrcsetDescriptors ==
    { <<>>, <<" ","1","x">>, <<" ","2","x">>, <<" ","1","0","w">>,
      <<" ","1",".","5","x">>, <<" ","w">> }

SrcsetEntryTexts == {<<>>} \cup {u \o d : u \in SrcsetUrls, d \in SrcsetDescriptors}

RECURSIVE SrcsetTexts(_)
SrcsetTexts(n) ==
    IF n = 1 THEN SrcsetEntryTexts
    ELSE SrcsetTexts(n - 1)
         \cup {p \o <<",", " ">> \o e : p \in SrcsetTexts(n - 1), e \in SrcsetEntryTexts}

SrcsetInputs == SrcsetTexts(MaxEntries) \ {<<>>}

----------------------------------------------------------------------------
(* get_matching_images: one element *)

\* an image element: whether it carries an alt attribute, the attribute
\* values (<<>> for an absent or empty attribute: get_attribute gives None or
\* "", which the code treats alike), and the specific selectors it is under
AttrNames ==
    {"data-zoom-src", "data-full-image", "data-original", "data-large-image",
     "srcset", "data-src", "src"}

data_attrs == <<"data-zoom-src", "data-full-image", "data-original", "data-large-image">>

\* img_url and not img_url.startswith("data:")
Usable(img_url) == img_url # <<>> /\ ~StartsWith(img_url, DATA_URI)

\* the loop over data_attrs: it breaks at the first usable value, and
\* otherwise leaves img_url at the value of the last attribute read
RECURSIVE DataAttrLoop(_, _, _)
DataAttrLoop(img, k, img_url) ==
    IF k > Len(data_attrs) THEN img_url
    ELSE LET v == img.attr[data_attrs[k]]
         IN IF Usable(v) THEN v ELSE DataAttrLoop(img, k + 1, v)

\* img_url after the srcset branch
AfterSrcset(img, img_url) ==
    IF Usable(img_url) THEN img_url
    ELSE LET srcset == img.attr["srcset"]
         IN IF srcset # <<>> /\ SrcsetLargest(srcset) # <<>>
            THEN SrcsetLargest(srcset)
            ELSE img_url

\* img_url after the fall back to attribute name
FallBackTo(img, name, img_url) ==
    IF Usable(img_url) THEN img_url ELSE img.attr[name]

\* the attribute chain of the selector passes
ResolveUrl(img) ==
    FallBackTo(img, "src",
        FallBackTo(img, "data-src",
            AfterSrcset(img, DataAttrLoop(img, 1, <<>>))))

\* the attribute chain of the broad pass (it does not read srcset)
ResolveUrlBroad(img) ==
    FallBackTo(img, "src",
        FallBackTo(img, "data-src", DataAttrLoop(img, 1, <<>>)))

\* re.compile(regex_pattern) succeeds: the patterns of the model are literal
\* texts, and "(" the expression that does not compile
PatternCompiles(regex_pattern) == regex_pattern # <<"(">>

\* pattern.search(alt_text) for a literal pattern
PatternSearch(regex_pattern, alt_text) == Contains(alt_text, regex_pattern)

\* the (img_url, alt_text) pair an element reaches the duplicate checks with,
\* <<>> when the element is passed over before them
ElementCandidate(img, regex_pattern, broad) ==
    IF img.alt = <<>> THEN <<>>
    ELSE IF ~PatternSearch(regex_pattern, img.alt) THEN <<>>
    ELSE LET img_url == IF broad THEN ResolveUrlBroad(img) ELSE ResolveUrl(img)
         IN IF Usable(img_url)
            THEN <<upgrade_to_fullsize_image(img_url), img.alt>>
            ELSE <<>>

SeqRange(q) == {q[i] : i \in 1..Len(q)}

\* a plausible slip: only the URL is checked before the append
Accept_UrlOnly(mi, seen, cand) ==
    IF cand[1] \notin {c[1] : c \in SeqRange(mi)}
    THEN [mi |-> Append(mi, cand), seen |-> seen \cup {cand[2]}]
    ELSE [mi |-> mi, seen |-> seen]

\* the two duplicate checks and the append: matching_images and seen_alts after
Accept(mi, seen, cand) ==
    IF cand[1] \notin {c[1] : c \in SeqRange(mi)}
    THEN IF cand[2] \notin seen
         THEN [mi |-> Append(mi, cand), seen |-> seen \cup {cand[2]}]
         ELSE [mi |-> mi, seen |-> seen]
    ELSE [mi |-> mi, seen |-> seen]

----------------------------------------------------------------------------
(* get_matching_images: the selector passes *)

\* a plausible slip: the broad img[alt] query moved behind the specific ones
selectors_BroadLast ==
    << "#vi_main_img_fs img", ".vi-image-carousel img",
       "#vi_main_img_fs_slider img", ".vi-image-carousel-list img", "img[alt]" >>

selectors ==
    << "img[alt]", "#vi_main_img_fs img", ".vi-image-carousel img",
       "#vi_main_img_fs_slider img", ".vi-image-carousel-list img" >>

SpecificSelectors ==
    { "#vi_main_img_fs img", ".vi-image-carousel img",
      "#vi_main_img_fs_slider img", ".vi-image-carousel-list img" }

\* the element is selected by the CSS selector
Selects(selector, img) ==
    CASE selector = "img"      -> TRUE
      [] selector = "img[alt]" -> img.hasAlt
      [] OTHER                 -> selector \in img.sels

\* page.locator(selector).all(): the positions of the selected elements, in
\* document order
RECURSIVE LocatorAll(_, _, _)
LocatorAll(page, selector, i) ==
    IF i > Len(page) THEN <<>>
    ELSE (IF Selects(selector, page[i]) THEN <<i>> ELSE <<>>)
         \o LocatorAll(page, selector, i + 1)

----------------------------------------------------------------------------
(* get_matching_images: the whole call *)

\* the inner loop over the elements a query returned, from position k on;
\* the reads of the elements at the positions in stale raise, and the inner
\* except passes those elements over
RECURSIVE ElementLoop(_, _, _, _, _, _, _)
ElementLoop(page, regex_pattern, elems, k, acc, broad, stale) ==
    IF k > Len(elems) THEN acc
    ELSE LET cand == IF elems[k] \in stale THEN <<>>
                     ELSE ElementCandidate(page[elems[k]], regex_pattern, broad)
             next == IF cand = <<>> THEN acc ELSE Accept(acc.mi, acc.seen, cand)
         IN ElementLoop(page, regex_pattern, elems, k + 1, next, broad, stale)

\* the loop over selectors, from the selector at position n on
RECURSIVE SelectorLoop(_, _, _, _, _)
SelectorLoop(page, regex_pattern, n, acc, stale) ==
    IF n > Len(selectors) THEN acc
    ELSE SelectorLoop(page, regex_pattern, n + 1,
             ElementLoop(page, regex_pattern, LocatorAll(page, selectors[n], 1), 1,
                         acc, FALSE, stale),
             stale)

\* the list the call returns when page.goto succeeds
GetMatchingImages(page, regex_pattern, stale) ==
    IF ~PatternCompiles(regex_pattern) THEN <<>>
    ELSE LET found == SelectorLoop(page, regex_pattern, 1, [mi |-> <<>>, seen |-> {}], stale)
         IN IF found.mi = <<>>
            THEN ElementLoop(page, regex_pattern, LocatorAll(page, "img", 1), 1,
                             found, TRUE, stale).mi
            ELSE found.mi

----------------------------------------------------------------------------
(* The pages and patterns of the model *)

CdnBaseB == <<"h","t","t","p","s",":","/","/","i",".","e","b","a","y","i","m","g",".","c","o","m","/","i","m","a","g","e","s","/","g","/","B">>
JPG      == <<".","j","p","g">>
UA64     == CdnBase \o <<"/","s","-","l","6","4">> \o JPG
UA500    == CdnBase \o <<"/","s","-","l","5","0","0">> \o JPG
UB225    == CdnBaseB \o <<"/","s","-","l","2","2","5">> \o JPG
Placeholder == <<"d","a","t","a",":","i","m","a","g","e","/","g","i","f",";","b","a","s","e","6","4",",","R","0">>

NoAttrs == [a \in AttrNames |-> <<>>]

Img(hasAlt, alt, attr, sels) == [hasAlt |-> hasAlt, alt |-> alt, attr |-> attr, sels |-> sels]

\* a carousel thumbnail
ImgCarouselA ==
    Img(TRUE, <<"f","a">>, [NoAttrs EXCEPT !["src"] = UA64], {".vi-image-carousel img"})

\* the same alt text on another image, outside the carousel
ImgOtherB ==
    Img(TRUE, <<"f","a">>, [NoAttrs EXCEPT !["src"] = UB225], {})

\* another size of the first image under another alt text
ImgMainA ==
    Img(TRUE, <<"f","b">>, [NoAttrs EXCEPT !["src"] = UA500], {"#vi_main_img_fs img"})

\* a lazy-loaded image: placeholders, a srcset and a data-src
ImgLazyB ==
    Img(TRUE, <<"f","b">>,
        [NoAttrs EXCEPT !["data-zoom-src"] = Placeholder,
                        !["srcset"] = UA64 \o <<" ","1","x",","," ">> \o UB225 \o <<" ","2","x">>,
                        !["data-src"] = OtherUrl,
                        !["src"] = Placeholder],
        {".vi-image-carousel img", ".vi-image-carousel-list img"})

\* an empty alt attribute
ImgEmptyAlt ==
    Img(TRUE, <<>>, [NoAttrs EXCEPT !["src"] = OtherUrl], {"#vi_main_img_fs_slider img"})

\* no alt attribute
ImgNoAlt ==
    Img(FALSE, <<>>, [NoAttrs EXCEPT !["src"] = OtherUrl], {".vi-image-carousel img"})

\* a full-size data attribute ahead of the thumbnail src
ImgDataOriginal ==
    Img(TRUE, <<"f","c">>,
        [NoAttrs EXCEPT !["data-original"] = OtherUrl, !["src"] = UA64], {})

ElementKinds ==
    {ImgCarouselA, ImgOtherB, ImgMainA, ImgLazyB, ImgEmptyAlt, ImgNoAlt, ImgDataOriginal}

RECURSIVE Pages(_)
Pages(n) ==
    IF n = 0 THEN {<<>>}
    ELSE Pages(n - 1) \cup {Append(p, k) : p \in Pages(n - 1), k \in ElementKinds}

PatternInputs == { <<"f">>, <<"f","b">>, <<"(">> }

----------------------------------------------------------------------------
(* Groups of variables at rest, for the specifications that do not use them *)

IdleUpgrade == u_pc = "off" /\ u_in = <<>> /\ u_out1 = <<>> /\ u_out2 = <<>>
IdleSrcset  == s_pc = "off" /\ s_srcset = <<>> /\ s_url = <<>>
IdleExtract ==
    /\ e_pc = "off" /\ e_page = <<>> /\ e_pattern = <<>> /\ e_sel = 0
    /\ e_elems = <<>> /\ e_k = 0 /\ matching_images = <<>> /\ seen_alts = {}
    /\ e_discovered = <<>> /\ e_origin = <<>> /\ e_consulted = <<>>

NoRun == [pc |-> "none", fresh |-> FALSE, res |-> <<>>, disk |-> {}]

IdleDriver ==
    /\ gallery = <<>> /\ disk = {} /\ dirs = {} /\ manifest = <<"absent">>
    /\ run = 0 /\ d_pc = "off" /\ item_i = 0 /\ output = <<>>
    /\ item_number = <<>> /\ d_matching_images = <<>> /\ idx = 0
    /\ downloaded_files = <<>> /\ skipped_files = <<>> /\ d_res = <<>>
    /\ d_fetched = {} /\ d_fresh = FALSE /\ d_perm = <<>> /\ d_prev = NoRun
    /\ d_found = <<>>

----------------------------------------------------------------------------
(* The upgrade rule applied once and twice to an input URL *)

InitUpgrade ==
    /\ u_pc = "in"
    /\ u_in \in UrlInputs
    /\ u_out1 = <<>>
    /\ u_out2 = <<>>
    /\ IdleSrcset
    /\ IdleExtract
    /\ IdleDriver

UpgradeOnce ==
    /\ u_pc = "in"
    /\ u_out1' = upgrade_to_fullsize_image(u_in)
    /\ u_pc' = "once"
    /\ UNCHANGED <<u_in, u_out2>>
    /\ UNCHANGED <<svars, evars, dvars>>

UpgradeTwice ==
    /\ u_pc = "once"
    /\ u_out2' = upgrade_to_fullsize_image(u_out1)
    /\ u_pc' = "twice"
    /\ UNCHANGED <<u_in, u_out1>>
    /\ UNCHANGED <<svars, evars, dvars>>

NextUpgrade == UpgradeOnce \/ UpgradeTwice

SpecUpgrade == InitUpgrade /\ [][NextUpgrade]_vars

----------------------------------------------------------------------------
(* Srcset resolution applied to an input srcset: the split into entries,   *)
(* then the choice                                                          *)

InitSrcset ==
    /\ s_pc = "in"
    /\ s_srcset \in SrcsetInputs
    /\ s_url = <<>>
    /\ IdleUpgrade
    /\ IdleExtract
    /\ IdleDriver

\* the srcset holds no entry with a word: the loop chooses nothing
SrcsetNoEntry ==
    /\ s_pc = "in"
    /\ SrcsetEntries(s_srcset) = <<>>
    /\ s_url' = SrcsetLargest(s_srcset)
    /\ s_pc' = "chosen"
    /\ UNCHANGED s_srcset
    /\ UNCHANGED <<uvars, evars, dvars>>

SrcsetChoose ==
    /\ s_pc = "in"
    /\ SrcsetEntries(s_srcset) # <<>>
    /\ s_url' = SrcsetLargest(s_srcset)
    /\ s_pc' = "chosen"
    /\ UNCHANGED s_srcset
    /\ UNCHANGED <<uvars, evars, dvars>>

NextSrcset == SrcsetNoEntry \/ SrcsetChoose

SpecSrcset == InitSrcset /\ [][NextSrcset]_vars

----------------------------------------------------------------------------
(* get_matching_images as a process: one call on one page *)

InitExtract ==
    /\ e_pc = "goto"
    /\ e_page \in Pages(MaxElems)
    /\ e_pattern \in PatternInputs
    /\ e_sel = 0
    /\ e_elems = <<>>
    /\ e_k = 0
    /\ matching_images = <<>>
    /\ seen_alts = {}
    /\ e_discovered = <<>>
    /\ e_origin = <<>>
    /\ e_consulted = <<>>
    /\ IdleUpgrade
    /\ IdleSrcset
    /\ IdleDriver

\* page.goto and the settle delay complete
GotoDone ==
    /\ e_pc = "goto"
    /\ e_pc' = "compile"
    /\ UNCHANGED <<e_page, e_pattern, e_sel, e_elems, e_k, matching_images,
                   seen_alts, e_discovered, e_origin, e_consulted>>
    /\ UNCHANGED <<uvars, svars, dvars>>

\* page.goto exceeds its timeout: the exception leaves the function
GotoTimeout ==
    /\ e_pc = "goto"
    /\ e_pc' = "raised"
    /\ UNCHANGED <<e_page, e_pattern, e_sel, e_elems, e_k, matching_images,
                   seen_alts, e_discovered, e_origin, e_consulted>>
    /\ UNCHANGED <<uvars, svars, dvars>>

\* re.compile succeeds; the locals are initialised
CompileDone ==
    /\ e_pc = "compile"
    /\ PatternCompiles(e_pattern)
    /\ e_pc' = "query"
    /\ e_sel' = 1
    /\ matching_images' = <<>>
    /\ seen_alts' = {}
    /\ UNCHANGED <<e_page, e_pattern, e_elems, e_k, e_discovered, e_origin, e_consulted>>
    /\ UNCHANGED <<uvars, svars, dvars>>

\* re.error: return []
CompileError ==
    /\ e_pc = "compile"
    /\ ~PatternCompiles(e_pattern)
    /\ e_pc' = "returned"
    /\ UNCHANGED <<e_page, e_pattern, e_sel, e_elems, e_k, matching_images,
                   seen_alts, e_discovered, e_origin, e_consulted>>
    /\ UNCHANGED <<uvars, svars, dvars>>

\* page.locator(selector).all() for the next selector of the list
QuerySelector ==
    /\ e_pc = "query"
    /\ e_sel <= Len(selectors)
    /\ e_elems' = LocatorAll(e_page, selectors[e_sel], 1)
    /\ e_k' = 1
    /\ e_pc' = "elem"
    /\ e_consulted' = Append(e_consulted, selectors[e_sel])
    /\ UNCHANGED <<e_page, e_pattern, e_sel, matching_images, seen_alts,
                   e_discovered, e_origin>>
    /\ UNCHANGED <<uvars, svars, dvars>>

\* the query raises: the outer except continues with the next selector
QueryRaises ==
    /\ e_pc = "query"
    /\ e_sel <= Len(selectors)
    /\ e_sel' = e_sel + 1
    /\ e_consulted' = Append(e_consulted, selectors[e_sel])
    /\ UNCHANGED <<e_page, e_pattern, e_elems, e_k, e_pc, matching_images,
                   seen_alts, e_discovered, e_origin>>
    /\ UNCHANGED <<uvars, svars, dvars>>

\* the body of the inner loop for one element of a selector pass
ElementStep ==
    /\ e_pc = "elem"
    /\ e_k <= Len(e_elems)
    /\ LET cand == ElementCandidate(e_page[e_elems[e_k]], e_pattern, FALSE)
           acc  == IF cand = <<>>
                   THEN [mi |-> matching_images, seen |-> seen_alts]
                   ELSE Accept(matching_images, seen_alts, cand)
       IN /\ matching_images' = acc.mi
          /\ seen_alts' = acc.seen
          /\ e_discovered' = IF cand = <<>> THEN e_discovered
                             ELSE Append(e_discovered, cand)
          /\ e_origin' = IF Len(acc.mi) > Len(matching_images)
                         THEN Append(e_origin, selectors[e_sel]) ELSE e_origin
    /\ e_k' = e_k + 1
    /\ UNCHANGED <<e_pc, e_page, e_pattern, e_sel, e_elems, e_consulted>>
    /\ UNCHANGED <<uvars, svars, dvars>>

\* an attribute read of the element raises (a stale handle): the inner
\* except continues with the next element
ElementRaises ==
    /\ e_pc \in {"elem", "broad"}
    /\ e_k <= Len(e_elems)
    /\ e_k' = e_k + 1
    /\ UNCHANGED <<e_pc, e_page, e_pattern, e_sel, e_elems, matching_images,
                   seen_alts, e_discovered, e_origin, e_consulted>>
    /\ UNCHANGED <<uvars, svars, dvars>>

\* the elements of the selector are exhausted
NextSelector ==
    /\ e_pc = "elem"
    /\ e_k > Len(e_elems)
    /\ e_sel' = e_sel + 1
    /\ e_pc' = "query"
    /\ UNCHANGED <<e_page, e_pattern, e_elems, e_k, matching_images, seen_alts,
                   e_discovered, e_origin, e_consulted>>
    /\ UNCHANGED <<uvars, svars, dvars>>

\* after the selector passes, if not matching_images: page.locator("img").all()
BroadQuery ==
    /\ e_pc = "query"
    /\ e_sel > Len(selectors)
    /\ matching_images = <<>>
    /\ e_elems' = LocatorAll(e_page, "img", 1)
    /\ e_k' = 1
    /\ e_pc' = "broad"
    /\ e_consulted' = Append(e_consulted, "img")
    /\ UNCHANGED <<e_page, e_pattern, e_sel, matching_images, seen_alts,
                   e_discovered, e_origin>>
    /\ UNCHANGED <<uvars, svars, dvars>>

\* the broad query raises: pass, and the function returns
BroadQueryRaises ==
    /\ e_pc = "query"
    /\ e_sel > Len(selectors)
    /\ matching_images = <<>>
    /\ e_pc' = "returned"
    /\ e_consulted' = Append(e_consulted, "img")
    /\ UNCHANGED <<e_page, e_pattern, e_sel, e_elems, e_k, matching_images,
                   seen_alts, e_discovered, e_origin>>
    /\ UNCHANGED <<uvars, svars, dvars>>

\* the selector passes found a candidate: return matching_images
ReturnMatches ==
    /\ e_pc = "query"
    /\ e_sel > Len(selectors)
    /\ matching_images # <<>>
    /\ e_pc' = "returned"
    /\ UNCHANGED <<e_page, e_pattern, e_sel, e_elems, e_k, matching_images,
                   seen_alts, e_discovered, e_origin, e_consulted>>
    /\ UNCHANGED <<uvars, svars, dvars>>

\* the body of the loop of the broad pass for one element
BroadElementStep ==
    /\ e_pc = "broad"
    /\ e_k <= Len(e_elems)
    /\ LET cand == ElementCandidate(e_page[e_elems[e_k]], e_pattern, TRUE)
           acc  == IF cand = <<>>
                   THEN [mi |-> matching_images, seen |-> seen_alts]
                   ELSE Accept(matching_images, seen_alts, cand)
       IN /\ matching_images' = acc.mi
          /\ seen_alts' = acc.seen
          /\ e_discovered' = IF cand = <<>> THEN e_discovered
                             ELSE Append(e_discovered, cand)
          /\ e_origin' = IF Len(acc.mi) > Len(matching_images)
                         THEN Append(e_origin, "img") ELSE e_origin
    /\ e_k' = e_k + 1
    /\ UNCHANGED <<e_pc, e_page, e_pattern, e_sel, e_elems, e_consulted>>
    /\ UNCHANGED <<uvars, svars, dvars>>

\* the elements of the broad pass are exhausted: return matching_images
BroadReturn ==
    /\ e_pc = "broad"
    /\ e_k > Len(e_elems)
    /\ e_pc' = "returned"
    /\ UNCHANGED <<e_page, e_pattern, e_sel, e_elems, e_k, matching_images,
                   seen_alts, e_discovered, e_origin, e_consulted>>
    /\ UNCHANGED <<uvars, svars, dvars>>

NextExtract ==
    \/ GotoDone
    \/ GotoTimeout
    \/ CompileDone
    \/ CompileError
    \/ QuerySelector
    \/ QueryRaises
    \/ ElementStep
    \/ ElementRaises
    \/ NextSelector
    \/ BroadQuery
    \/ BroadQueryRaises
    \/ ReturnMatches
    \/ BroadElementStep
    \/ BroadReturn

SpecExtract == InitExtract /\ [][NextExtract]_vars

----------------------------------------------------------------------------
(* process_gallery: helpers *)

ITM == <<"/","i","t","m","/">>

\* re.search(r'/itm/(\d+)', ebay_url): group 1 of the leftmost match, <<>>
\* for None
extract_item_number(ebay_url) ==
    LET hits == {i \in 1..Len(ebay_url) :
                    /\ IsPrefixAt(ebay_url, ITM, i)
                    /\ DigitsEnd(ebay_url, i + Len(ITM)) >= i + Len(ITM)}
    IN IF hits = {} THEN <<>>
       ELSE SubSeq(ebay_url, Min(hits) + Len(ITM), DigitsEnd(ebay_url, Min(hits) + Len(ITM)))

DigitChar(d) ==
    CASE d = 0 -> "0" [] d = 1 -> "1" [] d = 2 -> "2" [] d = 3 -> "3"
      [] d = 4 -> "4" [] d = 5 -> "5" [] d = 6 -> "6" [] d = 7 -> "7"
      [] d = 8 -> "8" [] d = 9 -> "9"

\* str(n) for n >= 0
RECURSIVE Decimal(_)
Decimal(n) ==
    IF n < 10 THEN <<DigitChar(n)>>
    ELSE Decimal(n \div 10) \o <<DigitChar(n % 10)>>

\* f"{n:03d}": zeros on the left up to three digits
ZeroPad3(n) ==
    LET ds == Decimal(n)
    IN IF Len(ds) >= 3 THEN ds
       ELSE [k \in 1..(3 - Len(ds)) |-> "0"] \o ds

\* a plausible slip: the file is numbered from zero (enumerate without start=1)
ImgFn_FromZero(item, n) ==
    item \o <<"-">> \o ZeroPad3(n - 1) \o <<".","j","p","g">>

\* img_fn = f"{item_number}-{seq_num}.jpg"
ImgFn(item, n) ==
    item \o <<"-">> \o ZeroPad3(n) \o <<".","j","p","g">>

\* img_fp: the folder of the item under img_root, and the file name
ImgFp(item, n) == <<item, ImgFn(item, n)>>

\* a plausible slip: the existence check is lost
Exists_Never(files, path) == FALSE

\* os.path.exists(img_fp)
Exists(files, path) == \E f \in files : f.path = path

\* the bytes the CDN serves for a URL
Body(img_url) == <<"body", img_url>>

\* open(save_path, "wb").write(img_bytes)
WriteFile(files, path, bytes) ==
    {f \in files : f.path # path} \cup {[path |-> path, bytes |-> bytes]}

\* a plausible slip: an item is put out only when a file was downloaded
PutsOut_DownloadedOnly(downloaded, skipped) == downloaded # <<>>

\* if downloaded_files or skipped_files
PutsOut(downloaded, skipped) == downloaded # <<>> \/ skipped # <<>>

----------------------------------------------------------------------------
(* The input lists and the listing pages *)

UrlItem12 == <<"h","t","t","p","s",":","/","/","w","w","w",".","e","b","a","y",".","c","o","m","/","i","t","m","/","1","2">>
UrlItem3  == <<"h","t","t","p","s",":","/","/","w","w","w",".","e","b","a","y",".","c","o","m","/","i","t","m","/","3">>
UrlNoItem == <<"h","t","t","p","s",":","/","/","w","w","w",".","e","b","a","y",".","c","o","m","/","u","s","r","/","1","2">>

\* the rendered page of a listing
PageOf(ebay_url) ==
    IF ebay_url = UrlItem12 THEN <<ImgCarouselA, ImgLazyB>>
    ELSE IF ebay_url = UrlItem3 THEN <<ImgMainA>>
    ELSE <<>>

Item(ebay_url, regex, title) == [ebay_url |-> ebay_url, regex |-> regex, title |-> title]

\* the items the input lists are made of
ItemInputs ==
    << Item(UrlItem12, <<"f">>, "two photos"),
       Item(UrlItem12, <<"f","b">>, "same listing, other pattern"),
       Item(UrlItem3, <<"f">>, "one photo"),
       Item(<<>>, <<"f">>, "no url"),
       Item(UrlItem3, <<>>, "no pattern"),
       Item(UrlNoItem, <<"f">>, "no item number"),
       Item(UrlItem3, <<"(">>, "invalid pattern"),
       Item(UrlItem3, <<"f","a">>, "no match") >>

\* the choices of at most n of them; the other orders of a list are reached
\* by RunReordered
RECURSIVE Picks(_, _)
Picks(n, from) ==
    IF n = 0 THEN {<<>>}
    ELSE {<<>>} \cup UNION {{<<k>> \o p : p \in Picks(n - 1, k + 1)} :
                                k \in from..Len(ItemInputs)}

Galleries(n) == {[i \in 1..Len(p) |-> ItemInputs[p[i]]] : p \in Picks(n, 1)}

\* the orders of n items
Orders(n) == {q \in [1..n -> 1..n] : \A i, j \in 1..n : i # j => q[i] # q[j]}

\* what has happened to an item in a run: not reached, passed over before
\* the download loop, or taken into the download loop
NotReached == [st |-> "not reached", cands |-> <<>>, names |-> <<>>, d |-> <<>>, s |-> <<>>]
PassedOver == [st |-> "passed over", cands |-> <<>>, names |-> <<>>, d |-> <<>>, s |-> <<>>]

----------------------------------------------------------------------------
(* process_gallery as a process, run again and again over one input list *)

InitDriver ==
    /\ gallery \in Galleries(MaxItems)
    /\ disk = {}
    /\ dirs = {}
    /\ manifest = <<"absent">>
    /\ run = 1
    /\ d_pc = "item"
    /\ item_i = 1
    /\ output = <<>>
    /\ item_number = <<>>
    /\ d_matching_images = <<>>
    /\ idx = 0
    /\ downloaded_files = <<>>
    /\ skipped_files = <<>>
    /\ d_found = [i \in 1..Len(gallery) |->
                     GetMatchingImages(PageOf(gallery[i].ebay_url), gallery[i].regex, {})]
    /\ d_res = [i \in 1..Len(gallery) |-> NotReached]
    /\ d_fetched = {}
    /\ d_fresh = TRUE
    /\ d_perm = [i \in 1..Len(gallery) |-> i]
    /\ d_prev = NoRun
    /\ IdleUpgrade
    /\ IdleSrcset
    /\ IdleExtract

AtItem == d_pc = "item" /\ item_i <= Len(gallery)

\* continue: the item is passed over
Continue ==
    /\ item_i' = item_i + 1
    /\ d_res' = [d_res EXCEPT ![item_i] = PassedOver]
    /\ UNCHANGED <<gallery, disk, dirs, manifest, run, d_pc, output, item_number,
                   d_matching_images, idx, downloaded_files, skipped_files,
                   d_fetched, d_fresh, d_perm, d_prev, d_found>>
    /\ UNCHANGED <<uvars, svars, evars>>

\* if not ebay_url
SkipMissingUrl ==
    /\ AtItem
    /\ gallery[item_i].ebay_url = <<>>
    /\ Continue

\* if not regex_pattern
SkipMissingRegex ==
    /\ AtItem
    /\ gallery[item_i].ebay_url # <<>>
    /\ gallery[item_i].regex = <<>>
    /\ Continue

\* if not item_number
SkipNoItemNumber ==
    /\ AtItem
    /\ gallery[item_i].ebay_url # <<>>
    /\ gallery[item_i].regex # <<>>
    /\ extract_item_number(gallery[item_i].ebay_url) = <<>>
    /\ Continue

\* the item reaches the call of get_matching_images
Extracts ==
    /\ AtItem
    /\ gallery[item_i].ebay_url # <<>>
    /\ gallery[item_i].regex # <<>>
    /\ extract_item_number(gallery[item_i].ebay_url) # <<>>

\* page.goto in get_matching_images exceeds its timeout: nothing in
\* get_matching_images or process_gallery catches the exception, the browser
\* context is left and the manifest is not written
NavigationTimeout ==
    /\ Extracts
    /\ d_pc' = "crashed"
    /\ UNCHANGED <<gallery, disk, dirs, manifest, run, item_i, output, item_number,
                   d_matching_images, idx, downloaded_files, skipped_files,
                   d_found, d_res, d_fetched, d_fresh, d_perm, d_prev>>
    /\ UNCHANGED <<uvars, svars, evars>>

\* get_matching_images returns no candidate (also for a pattern that does
\* not compile): continue
NoMatchingImages ==
    /\ Extracts
    /\ d_found[item_i] = <<>>
    /\ Continue

\* get_matching_images returns candidates: the folder is made and the
\* download loop starts
StartDownloads ==
    /\ Extracts
    /\ d_found[item_i] # <<>>
    /\ d_matching_images' = d_found[item_i]
    /\ d_res' = [d_res EXCEPT ![item_i] =
                   [st |-> "downloads", cands |-> d_found[item_i], names |-> <<>>,
                    d |-> <<>>, s |-> <<>>]]
    /\ item_number' = extract_item_number(gallery[item_i].ebay_url)
    /\ dirs' = dirs \cup {item_number'}
    /\ downloaded_files' = <<>>
    /\ skipped_files' = <<>>
    /\ idx' = 1
    /\ d_pc' = "image"
    /\ UNCHANGED <<gallery, disk, manifest, run, item_i, output, d_fetched,
                   d_fresh, d_perm, d_prev, d_found>>
    /\ UNCHANGED <<uvars, svars, evars>>

AtImage == d_pc = "image" /\ idx <= Len(d_matching_images)

\* the file exists: it is recorded as skipped and not fetched
SkipExisting ==
    /\ AtImage
    /\ Exists(disk, ImgFp(item_number, idx))
    /\ skipped_files' = Append(skipped_files, ImgFn(item_number, idx))
    /\ d_res' = [d_res EXCEPT ![item_i].names = Append(@, ImgFn(item_number, idx)),
                              ![item_i].s = Append(@, ImgFn(item_number, idx))]
    /\ idx' = idx + 1
    /\ UNCHANGED <<gallery, disk, dirs, manifest, run, d_pc, item_i, output,
                   item_number, d_matching_images, downloaded_files, d_fetched,
                   d_fresh, d_perm, d_prev, d_found>>
    /\ UNCHANGED <<uvars, svars, evars>>

\* download_image fetches the URL and writes the file
DownloadSucceeds ==
    /\ AtImage
    /\ ~Exists(disk, ImgFp(item_number, idx))
    /\ disk' = WriteFile(disk, ImgFp(item_number, idx), Body(d_matching_images[idx][1]))
    /\ downloaded_files' = Append(downloaded_files, ImgFn(item_number, idx))
    /\ d_res' = [d_res EXCEPT ![item_i].names = Append(@, ImgFn(item_number, idx)),
                              ![item_i].d = Append(@, ImgFn(item_number, idx))]
    /\ d_fetched' = d_fetched \cup {ImgFp(item_number, idx)}
    /\ idx' = idx + 1
    /\ UNCHANGED <<gallery, dirs, manifest, run, d_pc, item_i, output, item_number,
                   d_matching_images, skipped_files, d_fresh, d_perm, d_prev, d_found>>
    /\ UNCHANGED <<uvars, svars, evars>>

\* download_image fails before the file is opened (no response, or an
\* exception it catches): the failure is logged and the loop goes on
DownloadFails ==
    /\ AtImage
    /\ ~Exists(disk, ImgFp(item_number, idx))
    /\ d_res' = [d_res EXCEPT ![item_i].names = Append(@, ImgFn(item_number, idx))]
    /\ d_fetched' = d_fetched \cup {ImgFp(item_number, idx)}
    /\ idx' = idx + 1
    /\ UNCHANGED <<gallery, disk, dirs, manifest, run, d_pc, item_i, output,
                   item_number, d_matching_images, downloaded_files, skipped_files,
                   d_fresh, d_perm, d_prev, d_found>>
    /\ UNCHANGED <<uvars, svars, evars>>

\* download_image fails after open(save_path, "wb") has made the file: the
\* exception is caught, False is returned and the file stays, without the
\* bytes of the image
DownloadFailsWriting ==
    /\ AtImage
    /\ ~Exists(disk, ImgFp(item_number, idx))
    /\ disk' = WriteFile(disk, ImgFp(item_number, idx), <<>>)
    /\ d_res' = [d_res EXCEPT ![item_i].names = Append(@, ImgFn(item_number, idx))]
    /\ d_fetched' = d_fetched \cup {ImgFp(item_number, idx)}
    /\ idx' = idx + 1
    /\ UNCHANGED <<gallery, dirs, manifest, run, d_pc, item_i, output,
                   item_number, d_matching_images, downloaded_files, skipped_files,
                   d_fresh, d_perm, d_prev, d_found>>
    /\ UNCHANGED <<uvars, svars, evars>>

\* the candidates are exhausted: the output item is appended when a file
\* was downloaded or skipped
FinishItem ==
    /\ d_pc = "image"
    /\ idx > Len(d_matching_images)
    /\ output' = IF PutsOut(downloaded_files, skipped_files)
                 THEN Append(output,
                             [item |-> gallery[item_i],
                              downloaded_files |-> downloaded_files,
                              skipped_files |-> skipped_files,
                              total_matched |-> Len(d_matching_images)])
                 ELSE output
    /\ d_res' = [d_res EXCEPT ![item_i].st = "finished"]
    /\ item_i' = item_i + 1
    /\ d_pc' = "item"
    /\ UNCHANGED <<gallery, disk, dirs, manifest, run, item_number,
                   d_matching_images, idx, downloaded_files, skipped_files,
                   d_fetched, d_fresh, d_perm, d_prev, d_found>>
    /\ UNCHANGED <<uvars, svars, evars>>

\* after the loop over the items: json.dump(output) to the output file
WriteManifest ==
    /\ d_pc = "item"
    /\ item_i > Len(gallery)
    /\ manifest' = output
    /\ d_pc' = "done"
    /\ UNCHANGED <<gallery, disk, dirs, run, item_i, output, item_number,
                   d_matching_images, idx, downloaded_files, skipped_files,
                   d_found, d_res, d_fetched, d_fresh, d_perm, d_prev>>
    /\ UNCHANGED <<uvars, svars, evars>>

RunEnded == d_pc \in {"done", "crashed"}

\* the start of a new run of process_gallery
StartRun ==
    /\ run' = run + 1
    /\ d_pc' = "item"
    /\ item_i' = 1
    /\ output' = <<>>
    /\ item_number' = <<>>
    /\ d_matching_images' = <<>>
    /\ idx' = 0
    /\ downloaded_files' = <<>>
    /\ skipped_files' = <<>>
    /\ d_res' = [i \in 1..Len(gallery) |-> NotReached]
    /\ d_fetched' = {}
    /\ d_prev' = [pc |-> d_pc, fresh |-> d_fresh, res |-> d_res, disk |-> disk]
    /\ UNCHANGED manifest
    /\ UNCHANGED <<uvars, svars, evars>>

\* after a completed run the program is run again over the same input list,
\* the files kept
RunAgain ==
    /\ d_pc = "done"
    /\ run < MaxRuns
    /\ StartRun
    /\ d_fresh' = FALSE
    /\ d_perm' = [i \in 1..Len(gallery) |-> i]
    /\ UNCHANGED <<gallery, disk, dirs, d_found>>

\* every candidate of the run was downloaded or found on disk
NoDownloadFailed ==
    \A i \in 1..Len(gallery) : Len(d_res[i].d) + Len(d_res[i].s) = Len(d_res[i].cands)

\* the program is run over the same items in another order, on an empty
\* img_root, after a completed run from an empty img_root in which every
\* download succeeded
RunReordered ==
    /\ d_pc = "done" /\ d_fresh /\ NoDownloadFailed
    /\ run < MaxRuns
    /\ StartRun
    /\ \E q \in Orders(Len(gallery)) :
          /\ \E i \in 1..Len(gallery) : q[i] # i
          /\ gallery' = [i \in 1..Len(gallery) |-> gallery[q[i]]]
          /\ d_found' = [i \in 1..Len(gallery) |-> d_found[q[i]]]
          /\ d_perm' = q
    /\ d_fresh' = TRUE
    /\ disk' = {}
    /\ dirs' = {}

NextDriver ==
    \/ SkipMissingUrl
    \/ SkipMissingRegex
    \/ SkipNoItemNumber
    \/ NavigationTimeout
    \/ NoMatchingImages
    \/ StartDownloads
    \/ SkipExisting
    \/ DownloadSucceeds
    \/ DownloadFails
    \/ DownloadFailsWriting
    \/ FinishItem
    \/ WriteManifest
    \/ RunAgain
    \/ RunReordered

Spec == InitDriver /\ [][NextDriver]_vars

----------------------------------------------------------------------------
(* Claims about get_matching_images *)

\* no two candidates share a URL, no two share an alt text
NoDuplicateCandidates ==
    \A i, j \in 1..Len(matching_images) :
        i # j => /\ matching_images[i][1] # matching_images[j][1]
                 /\ matching_images[i][2] # matching_images[j][2]

\* when every element that reached the duplicate checks carries the same alt
\* text, the one candidate is the first of them
SameAltKeepsFirst ==
    (/\ e_discovered # <<>>
     /\ \A i \in 1..Len(e_discovered) : e_discovered[i][2] = e_discovered[1][2])
    => matching_images = <<e_discovered[1]>>

\* a step leaves the accepted candidates in place and at most appends
CandidatesAppendOnly ==
    /\ Len(matching_images') >= Len(matching_images)
    /\ SubSeq(matching_images', 1, Len(matching_images)) = matching_images

\* C3: at every point of get_matching_images, across the selector passes and
\* the broad pass, no two accumulated candidates have the same resolved URL or
\* the same alt text, candidates are only ever appended, and elements with
\* identical alt text and different URLs yield one candidate, the first
\* discovered.
C3_DedupAppendOnly ==
    /\ [](NoDuplicateCandidates /\ SameAltKeepsFirst)
    /\ [][CandidatesAppendOnly]_vars

\* two elements with the same alt text and different URLs reached the
\* duplicate checks, and the call returned one candidate
C3_Witness ==
    /\ e_pc = "returned"
    /\ Len(e_discovered) >= 2
    /\ e_discovered[1][2] = e_discovered[2][2]
    /\ e_discovered[1][1] # e_discovered[2][1]
    /\ Len(matching_images) = 1

\* q is an initial part of r
IsPrefixSeq(q, r) == Len(q) <= Len(r) /\ SubSeq(r, 1, Len(q)) = q

\* the order in which the code queries: the five selectors of the list, the
\* broad img[alt] first, then the query for every image element
C8_QueryOrder ==
    << "img[alt]", "#vi_main_img_fs img", ".vi-image-carousel img",
       "#vi_main_img_fs_slider img", ".vi-image-carousel-list img", "img" >>

C8_Pos(selector) == CHOOSE k \in 1..Len(C8_QueryOrder) : C8_QueryOrder[k] = selector

\* a specific selector selects an element that yields a candidate
SpecificYieldsMatch ==
    \E sel \in SpecificSelectors : \E i \in 1..Len(e_page) :
        /\ Selects(sel, e_page[i])
        /\ ElementCandidate(e_page[i], e_pattern, FALSE) # <<>>

----------------------------------------------------------------------------
(* Claims about the upgrade rule *)

\* a size token of the table occurs in the URL
HasKnownSize(u) == \E k \in 1..Len(size_replacements) : Contains(u, size_replacements[k])

\* C7: upgrade_to_fullsize_image is idempotent, upgrade(upgrade(u)) =
\* upgrade(u) for every URL u, and a URL that already contains s-l1600 is
\* returned unchanged; also for URLs with several size tokens or with a known
\* token as the prefix of a longer one (s-l640).
C7_UpgradeIdempotent ==
    /\ u_pc = "twice" => u_out2 = u_out1
    /\ (u_pc # "in" /\ Contains(u_in, SL1600)) => u_out1 = u_in

\* the s-l640 case: a known token (s-l64) as the prefix of a longer one, in a
\* URL that was rewritten by the first application
C7_Witness ==
    /\ u_pc = "twice"
    /\ Contains(u_in, <<"s","-","l","6","4","0">>)
    /\ ~Contains(u_in, SL1600)
    /\ Contains(u_out1, <<"s","-","l","1","6","0","0","0">>)

\* the URL is https://<host>/images/<id>/<id2>/s-l<size>/<filename> with a
\* size that is neither a known thumbnail size nor 1600
IsCdnUnknownSize(u) ==
    LET base == BaseUrlMatch(u)
        d0   == Len(base) + Len(SLASH_SL) + 1
        d1   == DigitsEnd(u, d0)
    IN /\ base # <<>>
       /\ StartsWith(u, base)
       /\ d1 >= d0
       /\ d1 + 2 <= Len(u)
       /\ u[d1 + 1] = "/"
       /\ RunEnd(u, d1 + 2) = Len(u)
       /\ ~HasKnownSize(SL \o SubSeq(u, d0, d1) \o <<"/">>)
       /\ SubSeq(u, d0, d1) # <<"1","6","0","0">>

\* the same URL with its size segment rewritten to s-l1600
CdnFullSize(u) ==
    LET base == BaseUrlMatch(u)
        d1   == DigitsEnd(u, Len(base) + Len(SLASH_SL) + 1)
    IN base \o <<"/">> \o SL1600 \o SubSeq(u, d1 + 1, Len(u))

\* C9: a CDN URL of the structural form .../images/<id>/<id2>/s-l<size>/<filename>
\* whose size token is not a known thumbnail token (nor s-l1600) is returned
\* with the size segment rewritten to s-l1600 and the filename kept.
C9_StructuralRewrite ==
    (u_pc # "in" /\ IsCdnUnknownSize(u_in)) => u_out1 = CdnFullSize(u_in)

----------------------------------------------------------------------------
(* Claims about srcset resolution *)

\* the position of the first entry with the largest magnitude
FirstLargest(entries) ==
    Min({k \in 1..Len(entries) : \A j \in 1..Len(entries) : entries[j][2] <= entries[k][2]})

\* C6: the URL chosen from a srcset is that of the entry with the largest
\* magnitude (0 for an entry without a numeric descriptor), the first-seen
\* among entries tied for the largest; also when every entry has magnitude 0.
C6_SrcsetLargestFirstSeen ==
    (s_pc = "chosen" /\ SrcsetEntries(s_srcset) # <<>>) =>
        s_url = SrcsetEntries(s_srcset)[FirstLargest(SrcsetEntries(s_srcset))][1]

----------------------------------------------------------------------------
(* Claims about process_gallery *)

\* the items of the list process_gallery has taken into the download loop
InLoop == {i \in 1..Len(gallery) : d_res[i].st \in {"downloads", "finished"}}

\* the files of a result that were downloaded or skipped, in index order
Kept(r) == SelectSeq(r.names, LAMBDA fn : fn \in SeqRange(r.d) \cup SeqRange(r.s))

\* q is r with some members left out
IsSubSeq(q, r) == SelectSeq(r, LAMBDA x : x \in SeqRange(q)) = q

\* C1: no recoverable failure of one task stops the run: whatever fails
\* (missing URL or pattern, no item number, invalid pattern, zero candidates, a
\* navigation that exceeds its timeout, a download error), every task of the
\* list is processed, every candidate of a task in the download loop is
\* attempted, and the manifest is written at the end of the run.
C1_NoFailureStopsTheRun ==
    RunEnded =>
        /\ d_pc = "done"
        /\ manifest = output
        /\ \A i \in 1..Len(gallery) : d_res[i].st \in {"passed over", "finished"}
        /\ \A i \in InLoop : Len(d_res[i].names) = Len(d_res[i].cands)

\* the file name of the candidate at position k, written out digit by digit
NameAt(item, k) ==
    item \o <<"-", DigitChar(k \div 100), DigitChar((k \div 10) % 10), DigitChar(k % 10),
              ".", "j", "p", "g">>

\* the position of a file name among the names given out for an item
PosIn(names, fn) == CHOOSE k \in 1..Len(names) : names[k] = fn

\* the names are a selection of names, in rising position
RisingIn(names, q) ==
    /\ \A j \in 1..Len(q) : q[j] \in SeqRange(names)
    /\ \A j, m \in 1..Len(q) : j < m => PosIn(names, q[j]) < PosIn(names, q[m])

\* C4: within one task the candidate at 1-based position idx is given the
\* file name {item_id}-{idx:03d}.jpg whether the earlier candidates were
\* downloaded, skipped or failed; the file names of a task are pairwise
\* distinct, downloaded_files and skipped_files are each strictly increasing
\* in idx, and they share no file name.
C4_FilenameByPosition ==
    /\ \A i \in InLoop :
          LET r == d_res[i]
          IN /\ \A k \in 1..Len(r.names) :
                    r.names[k] = NameAt(extract_item_number(gallery[i].ebay_url), k)
             /\ \A k, m \in 1..Len(r.names) : k # m => r.names[k] # r.names[m]
             /\ RisingIn(r.names, r.d)
             /\ RisingIn(r.names, r.s)
             /\ SeqRange(r.d) \cap SeqRange(r.s) = {}
    /\ d_pc = "image" =>
          /\ downloaded_files = d_res[item_i].d
          /\ skipped_files = d_res[item_i].s
          /\ Len(d_res[item_i].names) = idx - 1

\* C4 witness: of the two candidates of a task the first was skipped and the
\* second downloaded, after an earlier run in which the second had failed
C4_Witness ==
    \E i \in InLoop :
        /\ d_res[i].st = "finished"
        /\ Len(d_res[i].names) = 2
        /\ d_res[i].s = <<d_res[i].names[1]>>
        /\ d_res[i].d = <<d_res[i].names[2]>>

\* the items with a file downloaded or skipped
WithFiles == {i \in 1..Len(gallery) : d_res[i].d # <<>> \/ d_res[i].s # <<>>}

\* C5: after a completed run the manifest holds an output item for a task if
\* and only if a file of the task was downloaded or skipped (none for a task
\* with zero candidates or with every download failed), and the output items
\* are in the order of the input list.
C5_ManifestItems ==
    d_pc = "done" =>
        /\ Len(manifest) = Cardinality(WithFiles)
        /\ \A j \in 1..Len(manifest) :
              LET i == Kth(WithFiles, j)
              IN /\ manifest[j].item = gallery[i]
                 /\ manifest[j].downloaded_files = d_res[i].d
                 /\ manifest[j].skipped_files = d_res[i].s
                 /\ manifest[j].total_matched = Len(d_res[i].cands)

\* C5 witness: a completed run over two tasks with candidates: every download
\* of the first failed, the second has its output item
C5_Witness ==
    /\ d_pc = "done"
    /\ Len(gallery) = 2
    /\ InLoop = {1, 2}
    /\ d_res[1].d = <<>> /\ d_res[1].s = <<>>
    /\ Len(manifest) = 1
    /\ manifest[1].item = gallery[2]

\* a run over the same list with the files of the run before kept
IsRerun == run > 1 /\ ~d_fresh

\* the files of the run before are skipped, in index order, and not fetched
SkipsKeptFiles(i) ==
    /\ IsSubSeq(Kept(d_prev.res[i]), d_res[i].s)
    /\ \A fn \in SeqRange(Kept(d_prev.res[i])) :
          <<extract_item_number(gallery[i].ebay_url), fn>> \notin d_fetched

\* download_image was called for no candidate of a list of results: every
\* candidate of every task in the download loop was skipped
NothingFetched(res) ==
    \A i \in 1..Len(res) :
        res[i].st = "finished" => (res[i].s = res[i].names /\ Len(res[i].s) = Len(res[i].cands))

\* C2 (as amended): in a run over the same list with the files kept, for
\* every task that has gone through the download loop, every file listed in
\* downloaded_files or skipped_files of the run before is listed in
\* skipped_files, in index order, and download_image is not called for it;
\* the skipped_files of a completed run are identical to those of the
\* completed run before when the run before called download_image for no
\* candidate.
C2_RerunSkipsKeptFiles ==
    IsRerun =>
        /\ \A i \in 1..Len(gallery) : d_res[i].st = "finished" => SkipsKeptFiles(i)
        /\ (d_pc = "done" /\ d_prev.pc = "done" /\ NothingFetched(d_prev.res))
           => \A i \in 1..Len(gallery) : d_res[i].s = d_prev.res[i].s

\* C2 witness: a third run has skipped a file that the second run had
\* downloaded, the first run having failed to
C2_Witness ==
    /\ IsRerun /\ ~d_prev.fresh /\ d_pc = "done" /\ d_prev.pc = "done"
    /\ \E i \in 1..Len(gallery) :
          /\ d_res[i].st = "finished"
          /\ d_prev.res[i].d # <<>>
          /\ d_res[i].s # d_prev.res[i].s

\* C2 (as claimed): in a run over the same list with the files kept, every
\* file listed in downloaded_files or skipped_files of the run before is
\* listed in skipped_files in index order and is not fetched, and a third
\* run produces skipped_files identical to those of the second.
C2_ThirdRunIdentical ==
    (IsRerun /\ d_pc = "done" /\ d_prev.pc = "done") =>
        /\ \A i \in 1..Len(gallery) : d_res[i].st = "finished" => SkipsKeptFiles(i)
        /\ ~d_prev.fresh => \A i \in 1..Len(gallery) : d_res[i].s = d_prev.res[i].s

\* C10: the files under img_root do not depend on the order of the tasks:
\* from an empty img_root, a run over a permutation of the list leaves every
\* file holding the bytes of the same candidate and gives every task the
\* same downloaded_files and skipped_files, also when two tasks resolve to
\* the same item number with different patterns.
C10_OrderIndependent ==
    (/\ run > 1 /\ d_fresh /\ d_prev.fresh
     /\ d_pc = "done" /\ d_prev.pc = "done" /\ NoDownloadFailed)
    => /\ disk = d_prev.disk
       /\ \A i \in 1..Len(gallery) :
             /\ d_res[i].d = d_prev.res[d_perm[i]].d
             /\ d_res[i].s = d_prev.res[d_perm[i]].s

====
